---- MODULE Spec2Model ----
(***************************************************************************)
(* A model of ax/core/generator_run.py (GeneratorRun) and of               *)
(* ax/service/utils/report_utils.py (_get_shortest_unique_suffix_dict,     *)
(* exp_to_df, get_best_trial).                                             *)
(*                                                                         *)
(* Python values are encoded as follows.                                   *)
(*   - Optional[T]: None is the empty sequence <<>>, a value v is <<v>>.   *)
(*   - str: a sequence of one-character strings, so that str(), split(),   *)
(*     join() and + are computed character by character.                   *)
(*   - dict: a function from its keys to its values; a dict object lives   *)
(*     in a cell of `heap` and is referred to by its address, so that two  *)
(*     GeneratorRuns holding the same dict object is a state of the model. *)
(*   - float weights and means: integers (only + and comparisons are used).*)
(***************************************************************************)
EXTENDS Integers, Sequences, FiniteSets, TLC

VARIABLES
    debug,      \* Python's __debug__: FALSE when run with -O (asserts removed)
    runs,       \* the GeneratorRun objects created so far, by object id
    heap,       \* the dict objects referenced by the runs, by address
    result,     \* what the last operation returned or raised
    mutations,  \* how many dict mutations callers have performed
    ops,        \* how many operations followed the constructor call
    \* _get_shortest_unique_suffix_dict, one call
    input_str_list, delim,   \* its arguments
    suffix_dict,             \* suffix -> the input strings that have it, in insertion order
    max_chunks,              \* the largest number of chunks of an input string
    loop_i,                  \* the loop variable i of the regrouping loop
    sfx_pc,                  \* where the call is: idle, start, loop, fallback, done, raised
    sfx_return,              \* the dict returned, once done
    log,                     \* the warnings given to the logger
    \* exp_to_df, one call
    exp,                     \* the experiment: fetched data, arms_by_name, trials
    key_components,          \* argument key_components
    run_metadata_fields,     \* argument run_metadata_fields
    df_pc,                   \* idle, call, done
    df_result,               \* the DataFrame returned or the exception raised
    \* get_best_trial, calls on the same argument objects
    objective,               \* exp.optimization_config.objective
    additional_metrics,      \* the caller's list additional_metrics, or None
    best_pc,                 \* idle, call, done
    best_result,             \* what the last call returned or raised
    best_calls,              \* how many calls were made
    fetch_calls              \* how many times exp.fetch_data was called


gr_vars == <<debug, runs, heap, result, mutations, ops>>
sfx_vars == <<input_str_list, delim, suffix_dict, max_chunks, loop_i, sfx_pc, sfx_return>>
df_vars == <<exp, key_components, run_metadata_fields, df_pc, df_result>>
best_vars == <<objective, additional_metrics, best_pc, best_result, best_calls, fetch_calls>>
vars == <<gr_vars, sfx_vars, df_vars, best_vars, log>>

None == <<>>
Some(v) == <<v>>
IsNone(o) == o = <<>>
Val(o) == o[1]

\* ------------------------------------------------------------------ bounds
MaxArms == 3         \* longest arms list given to the constructor
MaxWeight == 2       \* weights are 1..MaxWeight
MaxStepIndex == 1    \* generation_step_index is None or in -1..MaxStepIndex
MaxIndex == 1        \* index values assigned by a trial are 0..MaxIndex
MaxRuns == 2         \* GeneratorRun objects alive at once (an original, a clone)
MaxMutations == 1    \* dict mutations performed by callers in one behaviour
MaxOps == 2          \* operations on the runs after the constructor call
MaxStrLen == 2       \* characters of an input string of the suffix resolver
MaxStrs == 3         \* input strings of the suffix resolver
MaxRows == 2         \* rows of the data an experiment has fetched
MaxMean == 2         \* means of the fetched data are 1..MaxMean
MaxBestCalls == 2    \* calls of get_best_trial on the same arguments

\* ------------------------------------------------------------------ str(int)
Digit(d) == CASE d = 0 -> "0" [] d = 1 -> "1" [] d = 2 -> "2" [] d = 3 -> "3"
              [] d = 4 -> "4" [] d = 5 -> "5" [] d = 6 -> "6" [] d = 7 -> "7"
              [] d = 8 -> "8" [] d = 9 -> "9"

RECURSIVE NatToStr(_)
NatToStr(n) == IF n < 10 THEN <<Digit(n)>>
               ELSE Append(NatToStr(n \div 10), Digit(n % 10))

\* Python's str() of an int: decimal digits, "-" in front of a negative one.
IntToStr(n) == IF n < 0 THEN <<"-">> \o NatToStr(0 - n) ELSE NatToStr(n)

\* ------------------------------------------------------------------ inputs
\* Arms (ax.core.arm.Arm, an external collaborator): only `signature` and
\* `name` are read.  Two arms with equal parameters have the same signature
\* whatever their names.
ArmPool == { [signature |-> "s1", name |-> "a"],
             [signature |-> "s1", name |-> "b"],
             [signature |-> "s2", name |-> "c"] }

Signatures == {a.signature : a \in ArmPool}
UnknownSignature == "s9"    \* the signature of no arm of ArmPool

SeqsUpTo(S, n) == UNION {[1..k -> S] : k \in 0..n}

ArmLists == SeqsUpTo(ArmPool, MaxArms)
WeightLists == SeqsUpTo(1..MaxWeight, MaxArms)
StepIndexes == {None} \cup {Some(i) : i \in -1..MaxStepIndex}

DictFields == { "model_kwargs", "bridge_kwargs", "gen_metadata",
                "model_state_after_gen", "candidate_metadata_by_arm_signature",
                "model_predictions", "best_arm_predictions" }

\* ------------------------------------------------------------------ dicts
EmptyDict == [k \in {} |-> 0]
DictOf(keys, v) == [k \in keys |-> v]
DictSet(d, k, v) == [x \in DOMAIN d \cup {k} |-> IF x = k THEN v ELSE d[x]]
DictDel(d, k) == [x \in DOMAIN d \ {k} |-> d[x]]

\* ------------------------------------------------------------------ __init__
\* `self._arm_weight_table.get(arm.signature)`: the position of the entry, or 0.
table_get(table, signature) ==
    IF \E i \in 1..Len(table) : table[i].signature = signature
    THEN CHOOSE i \in 1..Len(table) : table[i].signature = signature
    ELSE 0

\* A mutant of table_put: a repeated signature replaces the entry's weight.
table_put_overwrite(table, arm, weight) ==
    LET i == table_get(table, arm.signature)
        cw == [signature |-> arm.signature, arm |-> arm, weight |-> weight]
    IN IF i # 0 THEN [table EXCEPT ![i] = cw] ELSE Append(table, cw)

\* One iteration of the loop of lines 156-165.  `if existing_cw:` tests an
\* ArmWeight, a two-field tuple, which is true whenever the entry exists.
\* Assigning to an existing key of an OrderedDict keeps the key's position.
table_put(table, arm, weight) ==
    LET i == table_get(table, arm.signature)
    IN IF i # 0
       THEN [table EXCEPT ![i] = [signature |-> arm.signature, arm |-> arm,
                                   weight |-> table[i].weight + weight]]
       ELSE Append(table, [signature |-> arm.signature, arm |-> arm,
                           weight |-> weight])

\* `for arm, weight in zip(arms, weights)`: stops at the shorter list.
RECURSIVE build_table(_, _, _)
build_table(table, arms, weights) ==
    IF arms = <<>> \/ weights = <<>> THEN table
    ELSE build_table(table_put(table, Head(arms), Head(weights)),
                     Tail(arms), Tail(weights))

\* The properties arms, arm_signatures, weights of a run.
arms(run) == [i \in 1..Len(run.arm_weight_table) |-> run.arm_weight_table[i].arm]
arm_signatures(run) ==
    {run.arm_weight_table[i].arm.signature : i \in 1..Len(run.arm_weight_table)}
weights(run) == [i \in 1..Len(run.arm_weight_table) |-> run.arm_weight_table[i].weight]

\* `if weights is None: weights = [1.0 for i in range(len(arms))]`
default_weights(a) ==
    IF IsNone(a.weights) THEN [i \in 1..Len(a.arms) |-> 1] ELSE Val(a.weights)

\* A mutant of check_lengths: the length check is skipped.
check_lengths_skipped(a) == TRUE

\* `if len(arms) != len(weights): raise ValueError`
check_lengths(a) == Len(a.arms) = Len(default_weights(a))

\* Lines 146-155: model_key is required with either kwargs, and both kwargs
\* come together.
check_kwargs(a) ==
    (~IsNone(a.bridge_kwargs) \/ ~IsNone(a.model_kwargs)) =>
        /\ ~IsNone(a.model_key)
        /\ ~IsNone(a.bridge_kwargs) /\ ~IsNone(a.model_kwargs)

\* A mutant of check_candidate_metadata: the keys are not checked.
check_candidate_metadata_skipped(a, table, h) == TRUE

\* Lines 183-191: a candidate metadata dict that is not None and not empty
\* must have only signatures of the run's arms as keys.
check_candidate_metadata(a, table, h) ==
    LET cm == a.candidate_metadata_by_arm_signature
    IN (~IsNone(cm) /\ DOMAIN h[Val(cm)] # {}) =>
          DOMAIN h[Val(cm)] \ {table[i].arm.signature : i \in 1..Len(table)} = {}

\* `assert generation_step_index is None or generation_step_index >= 0`:
\* an assert statement raises AssertionError, and is removed under -O.
check_generation_step_index(a, dbg) ==
    IF ~dbg THEN "ok"
    ELSE IF IsNone(a.generation_step_index) \/ Val(a.generation_step_index) >= 0
    THEN "ok" ELSE "AssertionError"

\* GeneratorRun.__init__ on arguments `a` (dict arguments are addresses in
\* heap h): the exception raised, or "ok" and the object.
GeneratorRun_init(a, h, dbg) ==
    LET table == build_table(<<>>, a.arms, default_weights(a))
        run == [ arm_weight_table |-> table,
                 index |-> None,
                 model_key |-> a.model_key,
                 model_kwargs |-> a.model_kwargs,
                 bridge_kwargs |-> a.bridge_kwargs,
                 gen_metadata |-> a.gen_metadata,
                 model_state_after_gen |-> a.model_state_after_gen,
                 candidate_metadata_by_arm_signature |->
                     a.candidate_metadata_by_arm_signature,
                 model_predictions |-> a.model_predictions,
                 best_arm_predictions |-> a.best_arm_predictions,
                 generation_step_index |-> a.generation_step_index ]
    IN IF ~check_lengths(a) THEN [status |-> "ValueError", run |-> None]
       ELSE IF ~check_kwargs(a) THEN [status |-> "ValueError", run |-> None]
       ELSE IF ~check_candidate_metadata(a, table, h)
            THEN [status |-> "ValueError", run |-> None]
       ELSE IF check_generation_step_index(a, dbg) # "ok"
            THEN [status |-> check_generation_step_index(a, dbg), run |-> None]
       ELSE [status |-> "ok", run |-> Some(run)]

\* ------------------------------------------------------------------ actions
\* The caller's dict arguments become heap cells, one per argument given.
DictFieldOrder == << "model_predictions", "best_arm_predictions", "model_kwargs",
                     "bridge_kwargs", "gen_metadata", "model_state_after_gen",
                     "candidate_metadata_by_arm_signature" >>

RECURSIVE alloc_dicts(_, _, _)
alloc_dicts(h, contents, i) ==
    IF i > Len(DictFieldOrder) THEN [heap |-> h, addrs |-> [f \in {} |-> None]]
    ELSE LET f == DictFieldOrder[i]
             here == IF IsNone(contents[f]) THEN [heap |-> h, addr |-> None]
                     ELSE [heap |-> Append(h, Val(contents[f])),
                           addr |-> Some(Len(h) + 1)]
             rest == alloc_dicts(here.heap, contents, i + 1)
         IN [heap |-> rest.heap, addrs |-> (f :> here.addr) @@ rest.addrs]

NoDicts == [f \in DictFields |-> None]

\* A call GeneratorRun(arms, weights, model_key=..., ...), the first
\* operation of a behaviour.
Construct(arms_, weights_, model_key_, generation_step_index_, contents) ==
    /\ result.op = "init"
    /\ LET al == alloc_dicts(heap, contents, 1)
           a == [ arms |-> arms_, weights |-> weights_, model_key |-> model_key_,
                  generation_step_index |-> generation_step_index_ ] @@ al.addrs
           r == GeneratorRun_init(a, al.heap, debug)
       IN /\ result' = [ op |-> "construct", status |-> r.status,
                         run |-> IF r.status = "ok" THEN 1 ELSE 0,
                         arms |-> arms_, weights |-> weights_,
                         model_key |-> model_key_,
                         generation_step_index |-> generation_step_index_,
                         contents |-> contents ]
          /\ IF r.status = "ok"
             THEN runs' = Append(runs, Val(r.run)) /\ heap' = al.heap
             ELSE UNCHANGED <<runs, heap>>
    /\ UNCHANGED <<debug, mutations, ops, sfx_vars, df_vars, best_vars, log>>

\* A mutant of index_setter: the new value is always stored.
index_setter_always(run, index) == [status |-> "ok", run |-> [run EXCEPT !.index = Some(index)]]

\* The setter of `index` (lines 237-241).
index_setter(run, index) ==
    IF ~IsNone(run.index) /\ Val(run.index) # index
    THEN [status |-> "ValueError", run |-> run]
    ELSE [status |-> "ok", run |-> [run EXCEPT !.index = Some(index)]]

\* `generator_run.index = index`, as done by the trial the run is added to.
SetIndex(r, index) ==
    /\ r \in 1..Len(runs)
    /\ ops < MaxOps /\ ops' = ops + 1
    /\ LET s == index_setter(runs[r], index)
       IN /\ runs' = [runs EXCEPT ![r] = s.run]
          /\ result' = [op |-> "set_index", status |-> s.status, run |-> r,
                        value |-> index, before |-> runs[r].index]
    /\ UNCHANGED <<debug, heap, mutations, sfx_vars, df_vars, best_vars, log>>

\* A mutant of unique_id: the generation step index is looked at first.
unique_id_step_first(run) ==
    IF ~IsNone(run.generation_step_index)
    THEN [status |-> "ok", value |-> IntToStr(Val(run.generation_step_index))]
    ELSE IF ~IsNone(run.index)
    THEN [status |-> "ok", value |-> IntToStr(Val(run.index))]
    ELSE [status |-> "ValueError", value |-> <<>>]

\* The property _unique_id (lines 361-371).
unique_id(run) ==
    IF ~IsNone(run.index)
    THEN [status |-> "ok", value |-> IntToStr(Val(run.index))]
    ELSE IF ~IsNone(run.generation_step_index)
    THEN [status |-> "ok", value |-> IntToStr(Val(run.generation_step_index))]
    ELSE [status |-> "ValueError", value |-> <<>>]

\* A read of `generator_run._unique_id` (by SortableBase's comparisons).
UniqueId(r) ==
    /\ r \in 1..Len(runs)
    /\ ops < MaxOps /\ ops' = ops + 1
    /\ result' = [op |-> "unique_id", status |-> unique_id(runs[r]).status, run |-> r,
                  value |-> unique_id(runs[r]).value]
    /\ UNCHANGED <<debug, runs, heap, mutations, sfx_vars, df_vars, best_vars, log>>

\* extract_arm_predictions (lines 43-66): the (means, covariances) of the arm
\* at Python index arm_idx of the raw predictions.
extract_arm_predictions(model_predictions, arm_idx) ==
    LET means == model_predictions[1]
        covariances == model_predictions[2]
    IN << [metric \in DOMAIN means |-> means[metric][arm_idx + 1]],
          [metric \in DOMAIN covariances |->
              [other_metric \in DOMAIN covariances[metric] |->
                  covariances[metric][other_metric][arm_idx + 1]]] >>

\* The loop of lines 270-274 over enumerate(self.arms), from Python index idx on.
RECURSIVE predictions_from(_, _, _, _)
predictions_from(predictions, arms_, model_predictions, idx) ==
    IF idx >= Len(arms_) THEN predictions
    ELSE predictions_from(
             DictSet(predictions, arms_[idx + 1].signature,
                     extract_arm_predictions(model_predictions, idx)),
             arms_, model_predictions, idx + 1)

\* GeneratorRun.model_predictions_by_arm (lines 265-275)
model_predictions_by_arm(run, h) ==
    IF IsNone(run.model_predictions) THEN None
    ELSE Some(predictions_from(EmptyDict, arms(run), h[Val(run.model_predictions)], 0))

\* A read of `generator_run.model_predictions_by_arm`.
ModelPredictionsByArm(r) ==
    /\ r \in 1..Len(runs)
    /\ ops < MaxOps /\ ops' = ops + 1
    /\ result' = [op |-> "model_predictions_by_arm", status |-> "ok", run |-> r,
                  value |-> model_predictions_by_arm(runs[r], heap)]
    /\ UNCHANGED <<debug, runs, heap, mutations, sfx_vars, df_vars, best_vars, log>>

\* Arm.clone() (ax.core.arm, outside this source): a new Arm of the same
\* parameters and name, hence of the same signature.
Arm_clone(arm) == [signature |-> arm.signature, name |-> arm.name]

\* `dict.copy()` / `copy.deepcopy` of an optional dict: a new cell of equal
\* content, or None.
copy_cell(h, ref) ==
    IF IsNone(ref) THEN [heap |-> h, addr |-> None]
    ELSE [heap |-> Append(h, h[Val(ref)]), addr |-> Some(Len(h) + 1)]

\* GeneratorRun.clone (lines 309-353): the exception raised by the
\* constructor it calls, or "ok", the new object and the new heap.
clone(run, h, dbg) ==
    LET mp == copy_cell(h, run.model_predictions)
        bap == copy_cell(mp.heap, run.best_arm_predictions)
        a == [ arms |-> [i \in 1..Len(arms(run)) |-> Arm_clone(arms(run)[i])],
               weights |-> Some(weights(run)),
               model_predictions |-> mp.addr,
               best_arm_predictions |-> bap.addr,
               model_key |-> run.model_key,
               model_kwargs |-> run.model_kwargs,
               bridge_kwargs |-> run.bridge_kwargs,
               gen_metadata |-> run.gen_metadata,
               model_state_after_gen |-> run.model_state_after_gen,
               generation_step_index |-> run.generation_step_index,
               candidate_metadata_by_arm_signature |->
                   run.candidate_metadata_by_arm_signature ]
        r == GeneratorRun_init(a, bap.heap, dbg)
        mk == copy_cell(bap.heap, run.model_kwargs)
        bk == copy_cell(mk.heap, run.bridge_kwargs)
        ms == copy_cell(bk.heap, run.model_state_after_gen)
    IN IF r.status # "ok" THEN [status |-> r.status, run |-> None, heap |-> h]
       ELSE [ status |-> "ok",
              run |-> Some([Val(r.run) EXCEPT !.index = run.index,
                                              !.model_key = run.model_key,
                                              !.model_kwargs = mk.addr,
                                              !.bridge_kwargs = bk.addr,
                                              !.model_state_after_gen = ms.addr]),
              heap |-> ms.heap ]

\* A call `generator_run.clone()`.
Clone(r) ==
    /\ r \in 1..Len(runs)
    /\ Len(runs) < MaxRuns
    /\ ops < MaxOps /\ ops' = ops + 1
    /\ LET c == clone(runs[r], heap, debug)
       IN /\ result' = [op |-> "clone", status |-> c.status, of |-> r,
                        run |-> IF c.status = "ok" THEN Len(runs) + 1 ELSE 0]
          /\ heap' = c.heap
          /\ runs' = IF c.status = "ok" THEN Append(runs, Val(c.run)) ELSE runs
    /\ UNCHANGED <<debug, mutations, sfx_vars, df_vars, best_vars, log>>

\* The mutable mapping inside the object a field refers to: the field's dict
\* itself, the means of model_predictions (a tuple (means, covariances)), the
\* means of best_arm_predictions (a tuple (arm, (means, covariances))).
entries(f, cell) ==
    CASE f = "model_predictions" -> cell[1]
      [] f = "best_arm_predictions" -> cell[2][1]
      [] OTHER -> cell

with_entries(f, cell, d) ==
    CASE f = "model_predictions" -> <<d, cell[2]>>
      [] f = "best_arm_predictions" -> <<cell[1], <<d, cell[2][2]>>>>
      [] OTHER -> d

\* What a caller may write into the mapping of a field.
MutationKeys(f) ==
    CASE f = "candidate_metadata_by_arm_signature" -> Signatures \cup {UnknownSignature}
      [] f \in {"model_predictions", "best_arm_predictions"} -> {"m1", "m2"}
      [] OTHER -> {"k1", "k2"}

MutationValue(f) ==
    CASE f = "model_predictions" -> <<7>>
      [] OTHER -> 7

\* What run r shows for field f: None, or the content of the object it holds.
field_view(r, f) ==
    IF IsNone(runs[r][f]) THEN None ELSE Some(heap[Val(runs[r][f])])

\* A caller adds or replaces (`d[k] = v`) or removes (`del d[k]`) an entry of
\* the mapping it reads from field f of run r.
Mutate(r, f, k, delete) ==
    /\ r \in 1..Len(runs)
    /\ mutations < MaxMutations
    /\ ops < MaxOps /\ ops' = ops + 1
    /\ ~IsNone(runs[r][f])
    /\ LET addr == Val(runs[r][f])
           d == entries(f, heap[addr])
       IN /\ delete => k \in DOMAIN d
          /\ heap' = [heap EXCEPT ![addr] =
                        with_entries(f, heap[addr],
                                     IF delete THEN DictDel(d, k)
                                     ELSE DictSet(d, k, MutationValue(f)))]
    /\ mutations' = mutations + 1
    /\ result' = [op |-> "mutate", status |-> "ok", run |-> r, field |-> f]
    /\ UNCHANGED <<debug, runs, sfx_vars, df_vars, best_vars, log>>

\* ------------------------------------------------------------------ calls made
KwargsContent == "k1" :> 1

\* Raw predictions for n arms: (means, covariances), one value per arm.
PredictionsContent(n) ==
    << "m1" :> [i \in 1..n |-> i], "m1" :> ("m1" :> [i \in 1..n |-> 0]) >>

\* (best arm, (means, covariances) of that arm)
BestArmContent(arm) == << arm, << "m1" :> 1, "m1" :> ("m1" :> 0) >> >>

CandidateMetadataContents ==
    {DictOf(keys, 1) : keys \in SUBSET (Signatures \cup {UnknownSignature})}

OptionalOf(S) == {None} \cup {Some(x) : x \in S}

\* Calls that vary the arms and the weights.
ConstructArms ==
    \E arms_ \in ArmLists, weights_ \in OptionalOf(WeightLists) :
        Construct(arms_, weights_, None, None, NoDicts)

\* Calls that vary what the constructor validates.
ConstructValidated ==
    \E arms_ \in SeqsUpTo(ArmPool, 1), weights_ \in {None, Some(<<>>), Some(<<1>>)},
       model_key_ \in OptionalOf({"m"}), step \in StepIndexes,
       mk \in OptionalOf({KwargsContent}), bk \in OptionalOf({KwargsContent}),
       cm \in OptionalOf(CandidateMetadataContents) :
        Construct(arms_, weights_, model_key_, step,
                  [NoDicts EXCEPT !["model_kwargs"] = mk, !["bridge_kwargs"] = bk,
                                  !["candidate_metadata_by_arm_signature"] = cm])

\* Calls that vary the generation step index and the candidate metadata.
ConstructMetadata ==
    \E arms_ \in SeqsUpTo(ArmPool, 1), step \in StepIndexes,
       cm \in OptionalOf(CandidateMetadataContents) :
        Construct(arms_, None, None, step,
                  [NoDicts EXCEPT !["candidate_metadata_by_arm_signature"] = cm])

\* Which dict arguments a call gives: none, one, the two kwargs, or all.
DictProfiles ==
    {{}, DictFields, {"model_kwargs", "bridge_kwargs"}} \cup {{f} : f \in DictFields}

FirstArm == [signature |-> "s1", name |-> "a"]

\* Calls that vary which dict arguments are given.
ConstructDicts ==
    \E given \in DictProfiles :
        Construct(<<FirstArm>>, None, Some("m"), Some(0),
                  [f \in DictFields |->
                     IF f \notin given THEN None
                     ELSE CASE f = "model_predictions" -> Some(PredictionsContent(1))
                            [] f = "best_arm_predictions" -> Some(BestArmContent(FirstArm))
                            [] f = "candidate_metadata_by_arm_signature" ->
                                   Some(DictOf({FirstArm.signature}, 1))
                            [] OTHER -> Some(KwargsContent)])

\* Raw predictions for n arms on two metrics: (means, covariances), the value
\* of an arm telling its position in the list.
RawPredictions(n) ==
    << ("m1" :> [i \in 1..n |-> i]) @@ ("m2" :> [i \in 1..n |-> 10 + i]),
       ("m1" :> (("m1" :> [i \in 1..n |-> 20 + i]) @@ ("m2" :> [i \in 1..n |-> 30 + i])))
       @@ ("m2" :> (("m1" :> [i \in 1..n |-> 30 + i]) @@ ("m2" :> [i \in 1..n |-> 40 + i]))) >>

\* Calls that vary the arms and give raw predictions for them, or none.
ConstructPredicted ==
    \E arms_ \in ArmLists, predicted \in BOOLEAN :
        Construct(arms_, None, None, None,
                  [NoDicts EXCEPT !["model_predictions"] =
                      IF predicted THEN Some(RawPredictions(Len(arms_))) ELSE None])

ModelPredictionsByArmAny == \E r \in 1..MaxRuns : ModelPredictionsByArm(r)

SetIndexAny == \E r \in 1..MaxRuns, index \in 0..MaxIndex : SetIndex(r, index)
UniqueIdAny == \E r \in 1..MaxRuns : UniqueId(r)
CloneAny == \E r \in 1..MaxRuns : Clone(r)
MutateAny ==
    \E r \in 1..MaxRuns, f \in DictFields, delete \in BOOLEAN :
        \E k \in MutationKeys(f) : Mutate(r, f, k, delete)

\* ------------------------------------------------------------------ suffixes
\* `s.split(delim)` for a non-empty delim: the chunks between the leftmost
\* non-overlapping occurrences of delim, `cur` being the chunk read so far.
RECURSIVE split_from(_, _, _)
split_from(s, d, cur) ==
    IF Len(s) < Len(d) THEN <<cur \o s>>
    ELSE IF SubSeq(s, 1, Len(d)) = d
    THEN <<cur>> \o split_from(SubSeq(s, Len(d) + 1, Len(s)), d, <<>>)
    ELSE split_from(Tail(s), d, Append(cur, Head(s)))

split(s, d) == split_from(s, d, <<>>)

\* `delim.join(chunks)`
RECURSIVE join(_, _)
join(chunks, d) ==
    IF Len(chunks) = 0 THEN <<>>
    ELSE IF Len(chunks) = 1 THEN chunks[1]
    ELSE chunks[1] \o d \o join(Tail(chunks), d)

\* `chunks[-n:]` for n >= 1: the last n chunks, all of them when there are fewer.
last_chunks(chunks, n) ==
    IF n >= Len(chunks) THEN chunks ELSE SubSeq(chunks, Len(chunks) - n + 1, Len(chunks))

\* _get_suffix (lines 86-87)
get_suffix(input_str, d, n_chunks) == join(last_chunks(split(input_str, d), n_chunks), d)

\* The position of a key in an insertion-ordered dict of lists, or 0.
dd_find(dd, key) ==
    IF \E k \in 1..Len(dd) : dd[k].suffix = key
    THEN CHOOSE k \in 1..Len(dd) : dd[k].suffix = key
    ELSE 0

\* `dd[key].append(x)` on a defaultdict(list)
dd_append(dd, key, x) ==
    LET k == dd_find(dd, key)
    IN IF k # 0 THEN [dd EXCEPT ![k].strs = Append(@, x)]
       ELSE Append(dd, [suffix |-> key, strs |-> <<x>>])

\* `dd[key] = lst`
dd_assign(dd, key, lst) ==
    LET k == dd_find(dd, key)
    IN IF k # 0 THEN [dd EXCEPT ![k].strs = lst]
       ELSE Append(dd, [suffix |-> key, strs |-> lst])

\* `for istr in strs: dd[_get_suffix(istr, delim, n)].append(istr)`
RECURSIVE group_by_suffix(_, _, _, _)
group_by_suffix(dd, strs, d, n) ==
    IF strs = <<>> THEN dd
    ELSE group_by_suffix(dd_append(dd, get_suffix(Head(strs), d, n), Head(strs)),
                         Tail(strs), d, n)

\* A mutant of regroup: every group is split on i chunks, the groups of one
\* string too.
RECURSIVE regroup_all(_, _, _, _, _)
regroup_all(new_dict, dd, k, d, i) ==
    IF k > Len(dd) THEN new_dict
    ELSE regroup_all(group_by_suffix(new_dict, dd[k].strs, d, i), dd, k + 1, d, i)

\* The body of the loop over suffix_dict.items() (lines 126-132), from entry k
\* on: the groups of several strings are split on i chunks, the others kept.
RECURSIVE regroup(_, _, _, _, _)
regroup(new_dict, dd, k, d, i) ==
    IF k > Len(dd) THEN new_dict
    ELSE IF Len(dd[k].strs) > 1
    THEN regroup(group_by_suffix(new_dict, dd[k].strs, d, i), dd, k + 1, d, i)
    ELSE regroup(dd_assign(new_dict, dd[k].suffix, dd[k].strs), dd, k + 1, d, i)

\* all_unique after the loop over suffix_dict.items()
all_unique(dd) == \A k \in 1..Len(dd) : ~(Len(dd[k].strs) > 1)

\* `{suffix_str_list[0]: suffix for suffix, suffix_str_list in dd.items()}`
RECURSIVE first_to_suffix(_, _)
first_to_suffix(dd, k) ==
    IF k = 0 THEN EmptyDict
    ELSE DictSet(first_to_suffix(dd, k - 1), dd[k].strs[1], dd[k].suffix)

\* `{istr: istr for istr in input_str_list}`
identity_dict(strs) == [x \in {strs[k] : k \in 1..Len(strs)} |-> x]

SeqMax(ns) == CHOOSE m \in {ns[k] : k \in 1..Len(ns)} : \A k \in 1..Len(ns) : ns[k] <= m

\* A mutant of last_round: the loop is `for i in range(2, max_chunks + 1)`.
last_round_short(mc) == mc

\* The last round the loop `for i in range(2, max_chunks + 2)` runs.
last_round(mc) == mc + 1

sfx_args == <<input_str_list, delim>>

\* `len(input_str_list) == len(set(input_str_list))`
IsInjective(q) == \A m, n \in 1..Len(q) : q[m] = q[n] => m = n

\* Lines 109-118: the checks, the grouping on the last chunk, max_chunks and
\* the early return for inputs of one chunk each.
SfxStart ==
    /\ sfx_pc = "start"
    /\ IF \/ debug /\ ~IsInjective(input_str_list)
          \/ delim = <<>>
          \/ input_str_list = <<>>
       THEN \* AssertionError: repeated strings, unless run with -O (line 109);
            \* ValueError: an empty delim (line 111), max() of no string (line 116)
            /\ sfx_pc' = "raised"
            /\ UNCHANGED <<suffix_dict, max_chunks, loop_i, sfx_return>>
       ELSE LET mc == SeqMax([k \in 1..Len(input_str_list) |->
                                 Len(split(input_str_list[k], delim))])
            IN /\ suffix_dict' = group_by_suffix(<<>>, input_str_list, delim, 1)
               /\ max_chunks' = mc
               /\ IF mc = 1
                  THEN /\ sfx_return' = Some(identity_dict(input_str_list))
                       /\ sfx_pc' = "done"
                       /\ UNCHANGED loop_i
                  ELSE /\ loop_i' = 2
                       /\ sfx_pc' = "loop"
                       /\ UNCHANGED sfx_return
    /\ UNCHANGED <<sfx_args, log, gr_vars, df_vars, best_vars>>

\* One iteration of the loop of lines 123-140.
SfxRound ==
    /\ sfx_pc = "loop"
    /\ LET new_dict == regroup(<<>>, suffix_dict, 1, delim, loop_i)
       IN IF all_unique(suffix_dict)
          THEN IF Cardinality({input_str_list[k] : k \in 1..Len(input_str_list)})
                      # Len(suffix_dict)
               THEN \* break
                    /\ sfx_pc' = "fallback"
                    /\ UNCHANGED <<suffix_dict, loop_i, sfx_return>>
               ELSE /\ sfx_return' = Some(first_to_suffix(suffix_dict, Len(suffix_dict)))
                    /\ sfx_pc' = "done"
                    /\ UNCHANGED <<suffix_dict, loop_i>>
          ELSE /\ suffix_dict' = new_dict
               /\ loop_i' = loop_i + 1
               /\ sfx_pc' = IF loop_i + 1 > last_round(max_chunks)
                            THEN "fallback" ELSE "loop"
               /\ UNCHANGED sfx_return
    /\ UNCHANGED <<sfx_args, max_chunks, log, gr_vars, df_vars, best_vars>>

\* Lines 144-148: the warning and the identity mapping.
SfxFallback ==
    /\ sfx_pc = "fallback"
    /\ log' = Append(log, [warning |-> "suffix_fallback"])
    /\ sfx_return' = Some(identity_dict(input_str_list))
    /\ sfx_pc' = "done"
    /\ UNCHANGED <<sfx_args, suffix_dict, max_chunks, loop_i, gr_vars, df_vars, best_vars>>

\* ------------------------------------------------------------------ exp_to_df
\* The characters of trial indexes and arm names, in the order Python
\* compares them (their code points).
CharCode(c) ==
    CASE c = "0" -> 48 [] c = "1" -> 49 [] c = "2" -> 50 [] c = "3" -> 51
      [] c = "4" -> 52 [] c = "5" -> 53 [] c = "6" -> 54 [] c = "7" -> 55
      [] c = "8" -> 56 [] c = "9" -> 57 [] c = "-" -> 45 [] c = "_" -> 95

\* a < b for strings
RECURSIVE StrLess(_, _)
StrLess(a, b) ==
    IF b = <<>> THEN FALSE
    ELSE IF a = <<>> THEN TRUE
    ELSE IF Head(a) = Head(b) THEN StrLess(Tail(a), Tail(b))
    ELSE CharCode(Head(a)) < CharCode(Head(b))

\* `results[key].astype("str")` for one row: str() of the value of the column.
column_str(row, column) ==
    IF column = "trial_index" THEN IntToStr(row.trial_index) ELSE row.arm_name

\* Lines 274-277: the key of a row, the concatenation of the strings of its
\* key components.
RECURSIVE key_of(_, _)
key_of(row, components) ==
    IF Len(components) = 1 THEN column_str(row, components[1])
    ELSE column_str(row, components[1]) \o key_of(row, Tail(components))

\* The strings of a set in ascending order.
RECURSIVE sorted_strs(_)
sorted_strs(S) ==
    IF S = {} THEN <<>>
    ELSE LET least == CHOOSE x \in S : \A y \in S \ {x} : StrLess(x, y)
         IN <<least>> \o sorted_strs(S \ {least})

Range(q) == {q[k] : k \in 1..Len(q)}

\* `results.pivot(index=key_col, columns="metric_name", values="mean")`:
\* pandas raises ValueError when two rows have the same index and column;
\* else one row per key, in ascending order of the keys, holding for each
\* metric name of the data the mean of the row of that key and metric, or NaN
\* (None here).
pivot_fails(results, components) ==
    \E m, n \in 1..Len(results) :
        /\ m # n
        /\ key_of(results[m], components) = key_of(results[n], components)
        /\ results[m].metric_name = results[n].metric_name

pivot(results, components) ==
    LET keys == sorted_strs({key_of(results[k], components) : k \in 1..Len(results)})
        names == {results[k].metric_name : k \in 1..Len(results)}
        cell(key, name) ==
            LET at == {k \in 1..Len(results) :
                          /\ key_of(results[k], components) = key
                          /\ results[k].metric_name = name}
            IN IF at = {} THEN None ELSE Some(results[CHOOSE k \in at : TRUE].mean)
    IN [k \in 1..Len(keys) |->
          [key |-> keys[k], metrics |-> [name \in names |-> cell(keys[k], name)]]]

\* `results[key_components + [key_col]].drop_duplicates()`: the distinct
\* (key components, key) of the rows, in the order of their first occurrence.
RECURSIVE drop_duplicates(_, _, _)
drop_duplicates(seen, results, components) ==
    IF results = <<>> THEN seen
    ELSE LET r == Head(results)
             md == [trial_index |-> r.trial_index, arm_name |-> r.arm_name,
                    key |-> key_of(r, components)]
         IN drop_duplicates(IF md \in Range(seen) THEN seen ELSE Append(seen, md),
                            Tail(results), components)

\* `pd.merge(metric_vals, metadata, on=key_col)`: an inner join that keeps the
\* order of the left rows and, for one left row, the order of the right rows.
RECURSIVE merge_on_key(_, _)
merge_on_key(metric_vals, metadata) ==
    IF metric_vals = <<>> THEN <<>>
    ELSE LET left == Head(metric_vals)
             right == SelectSeq(metadata, LAMBDA md : md.key = left.key)
         IN [k \in 1..Len(right) |->
               [key |-> left.key, metrics |-> left.metrics,
                trial_index |-> right[k].trial_index, arm_name |-> right[k].arm_name]]
            \o merge_on_key(Tail(metric_vals), metadata)

\* `pd.merge(metric_and_metadata, arm_names_and_params, on="arm_name")`: the
\* rows of the arms of exp.arms_by_name, with the parameters of the arm.
merge_arms(rows, arms_by_name) ==
    LET kept == SelectSeq(rows, LAMBDA r : r.arm_name \in DOMAIN arms_by_name)
    IN [k \in 1..Len(kept) |->
          [key |-> kept[k].key, metrics |-> kept[k].metrics,
           trial_index |-> kept[k].trial_index, arm_name |-> kept[k].arm_name,
           parameters |-> arms_by_name[kept[k].arm_name]]]

\* Line 296-297: the column trial_status.
add_trial_status(rows, trials) ==
    [k \in 1..Len(rows) |->
       [key |-> rows[k].key, metrics |-> rows[k].metrics,
        trial_index |-> rows[k].trial_index, arm_name |-> rows[k].arm_name,
        parameters |-> rows[k].parameters,
        trial_status |-> trials[rows[k].trial_index].status,
        fields |-> EmptyDict]]

\* Python's truth value of a run_metadata value or None.
truthy(o) == ~IsNone(o) /\ Val(o) # 0

\* Lines 307-310: trial index -> the trial's value of the field, or None.
trial_to_metadata_field(trials, field) ==
    [t \in DOMAIN trials |->
       IF field \in DOMAIN trials[t].run_metadata
       THEN Some(trials[t].run_metadata[field]) ELSE None]

\* `any(trial_to_metadata_field.values())` (line 311)
field_found(trials, field) ==
    \E t \in DOMAIN trials : truthy(trial_to_metadata_field(trials, field)[t])

\* `all(trial_to_metadata_field.values())` (line 312)
field_found_everywhere(trials, field) ==
    \A t \in DOMAIN trials : truthy(trial_to_metadata_field(trials, field)[t])

\* The loop of lines 306-322 over the requested fields: the rows with the
\* columns appended and the warnings given.
RECURSIVE add_run_metadata(_, _, _, _)
add_run_metadata(rows, warnings, trials, fields) ==
    IF fields = <<>> THEN [rows |-> rows, warnings |-> warnings]
    ELSE LET field == Head(fields)
             by_trial == trial_to_metadata_field(trials, field)
         IN IF field_found(trials, field)
            THEN add_run_metadata(
                    [k \in 1..Len(rows) |->
                       [rows[k] EXCEPT !.fields =
                          DictSet(@, field, by_trial[rows[k].trial_index])]],
                    IF ~field_found_everywhere(trials, field)
                    THEN Append(warnings, [warning |-> "missing_for_some", field |-> field])
                    ELSE warnings,
                    trials, Tail(fields))
            ELSE add_run_metadata(
                    rows,
                    Append(warnings, [warning |-> "missing_for_all", field |-> field]),
                    trials, Tail(fields))

\* a < b on the columns sort_by, compared in turn.
RECURSIVE row_less(_, _, _)
row_less(a, b, sort_by) ==
    IF sort_by = <<>> THEN FALSE
    ELSE LET c == Head(sort_by)
             lt == IF c = "trial_index" THEN a.trial_index < b.trial_index
                   ELSE StrLess(a.arm_name, b.arm_name)
             eq == IF c = "trial_index" THEN a.trial_index = b.trial_index
                   ELSE a.arm_name = b.arm_name
         IN lt \/ (eq /\ row_less(a, b, Tail(sort_by)))

\* `df.sort_values(sort_by)`: ascending, rows that compare equal kept in order.
RECURSIVE sort_values(_, _)
sort_values(rows, sort_by) ==
    IF rows = <<>> THEN <<>>
    ELSE LET init == sort_values(SubSeq(rows, 1, Len(rows) - 1), sort_by)
             x == rows[Len(rows)]
             n == Cardinality({k \in 1..Len(init) : ~row_less(x, init[k], sort_by)})
         IN SubSeq(init, 1, n) \o <<x>> \o SubSeq(init, n + 1, Len(init))

\* prep_return (lines 257-260): the key column dropped, the rows sorted.
prep_return(rows, sort_by) ==
    LET sorted == sort_values(rows, sort_by)
    IN [k \in 1..Len(sorted) |->
          [metrics |-> sorted[k].metrics,
           trial_index |-> sorted[k].trial_index, arm_name |-> sorted[k].arm_name,
           parameters |-> sorted[k].parameters,
           trial_status |-> sorted[k].trial_status,
           fields |-> sorted[k].fields]]

DefaultKeyComponents == <<"trial_index", "arm_name">>

\* `exp.fetch_data(metrics, **kwargs).df` (line 268): the rows the experiment
\* has for the metrics asked for, for all its metrics when metrics is None.
fetch_data(e, metrics) ==
    IF IsNone(metrics) THEN e.data
    ELSE SelectSeq(e.data, LAMBDA r : r.metric_name \in Range(Val(metrics)))

\* exp_to_df (lines 228-323) on an experiment and its arguments: the status
\* ("ok" or the exception), the rows returned, the warnings logged and
\* whether exp.fetch_data was called.
exp_to_df(e, metrics, kc_arg, rmf) ==
    LET kc == IF IsNone(kc_arg) \/ kc_arg = Some(<<>>)
              THEN DefaultKeyComponents ELSE Val(kc_arg)
        results == fetch_data(e, metrics)
        exp_df == add_trial_status(
                      merge_arms(merge_on_key(pivot(results, kc),
                                              drop_duplicates(<<>>, results, kc)),
                                 e.arms_by_name),
                      e.trials)
        with_md == add_run_metadata(exp_df, <<>>, e.trials, Val(rmf).fields)
    IN IF e.is_multi_type
       THEN [status |-> "ValueError", rows |-> <<>>, warnings |-> <<>>,
             fetched |-> FALSE]
       ELSE IF Len(results) = 0
       THEN [status |-> "ok", rows |-> <<>>, warnings |-> <<>>, fetched |-> TRUE]
       ELSE IF pivot_fails(results, kc)
       THEN [status |-> "ValueError", rows |-> <<>>, warnings |-> <<>>, fetched |-> TRUE]
       ELSE IF IsNone(rmf)
       THEN [status |-> "ok", rows |-> prep_return(exp_df, kc), warnings |-> <<>>, fetched |-> TRUE]
       ELSE IF ~Val(rmf).is_list
       THEN [status |-> "ValueError", rows |-> <<>>, warnings |-> <<>>, fetched |-> TRUE]
       ELSE [status |-> "ok", rows |-> prep_return(with_md.rows, kc),
             warnings |-> with_md.warnings, fetched |-> TRUE]

\* A call exp_to_df(exp, key_components=..., run_metadata_fields=...).
ExpToDf ==
    /\ df_pc = "call"
    /\ LET r == exp_to_df(exp, None, key_components, run_metadata_fields)
       IN /\ df_result' = [status |-> r.status, rows |-> r.rows]
          /\ log' = log \o r.warnings
          /\ fetch_calls' = fetch_calls + (IF r.fetched THEN 1 ELSE 0)
    /\ df_pc' = "done"
    /\ UNCHANGED <<exp, key_components, run_metadata_fields, gr_vars, sfx_vars>>
    /\ UNCHANGED <<objective, additional_metrics, best_pc, best_result, best_calls>>

\* ------------------------------------------------------------------ get_best_trial
\* A mutant of is_unsupported: only MultiObjective is turned away.
is_unsupported_multi_only(obj) == obj.kind = "MultiObjective"

\* Lines 355-366: the objectives get_best_trial has no best trial for.
is_unsupported(obj) == obj.kind \in {"MultiObjective", "ScalarizedObjective"}

\* Lines 367-370: the list handed to exp_to_df as metrics. The objective's
\* metric is appended to the caller's list object when the list does not
\* have it.
with_objective_metric(obj, am) ==
    IF ~IsNone(am) /\ obj.metric \notin Range(Val(am))
    THEN Some(Append(Val(am), obj.metric))
    ELSE am

SetMin(S) == CHOOSE x \in S : \A y \in S : x <= y
SetMax(S) == CHOOSE x \in S : \A y \in S : x >= y

\* Lines 383-385: `trials_df[metric_name].min()` or `.max()`; NaN entries are
\* skipped and the result is NaN (None here) when there is no other entry.
metric_optimum(rows, metric_name, minimize) ==
    LET values == {Val(rows[k].metrics[metric_name]) :
                      k \in {n \in 1..Len(rows) : ~IsNone(rows[n].metrics[metric_name])}}
    IN IF values = {} THEN None
       ELSE Some(IF minimize THEN SetMin(values) ELSE SetMax(values))

\* Line 386: `trials_df[trials_df[metric_name] == metric_optimum].head(1)`;
\* a comparison with NaN is False.
best_rows(rows, metric_name, optimum) ==
    LET at == SelectSeq(rows, LAMBDA r : ~IsNone(optimum) /\ r.metrics[metric_name] = optimum)
    IN IF at = <<>> THEN <<>> ELSE <<at[1]>>

\* Lines 378-386, on the table exp_to_df returned (its status "ok").
select_best(obj, rows) ==
    IF Len(rows) = 0 THEN [status |-> "None", rows |-> <<>>,
                           warnings |-> <<[warning |-> "zero_trials"]>>]
    ELSE IF obj.metric \notin DOMAIN rows[1].metrics
    THEN [status |-> "KeyError", rows |-> <<>>, warnings |-> <<>>]
    ELSE [status |-> "ok", warnings |-> <<>>,
          rows |-> CHOOSE best \in
                      {best_rows(rows, obj.metric, optimum) :
                          optimum \in {metric_optimum(rows, obj.metric, obj.minimize)}} :
                      TRUE]

\* get_best_trial (lines 326-386) once the objective is known to be a plain
\* one, given the list handed on as metrics and the result of exp_to_df.
after_exp_to_df(obj, metrics, trials_df) ==
    LET selected == select_best(obj, trials_df.rows)
    IN IF trials_df.status # "ok"
       THEN [status |-> trials_df.status, rows |-> <<>>, warnings |-> <<>>,
             additional_metrics |-> metrics, trials_df |-> Some(trials_df)]
       ELSE [status |-> selected.status, rows |-> selected.rows,
             warnings |-> trials_df.warnings \o selected.warnings,
             additional_metrics |-> metrics, trials_df |-> Some(trials_df)]

\* get_best_trial (lines 326-386): the status ("ok", "None" for the value
\* None, or the exception), the rows returned, the warnings logged, the
\* caller's list additional_metrics after the call and the result of the call
\* of exp_to_df, if it was made.
get_best_trial(e, obj, am, kc_arg, rmf) ==
    IF is_unsupported(obj)
    THEN [status |-> "None", rows |-> <<>>,
          warnings |-> <<[warning |-> "no_best_trial", kind |-> obj.kind]>>,
          additional_metrics |-> am, trials_df |-> None]
    ELSE CHOOSE r \in {after_exp_to_df(obj, metrics, trials_df) :
                          metrics \in {with_objective_metric(obj, am)},
                          trials_df \in {exp_to_df(e, with_objective_metric(obj, am),
                                                   kc_arg, rmf)}} : TRUE

\* A call get_best_trial(exp, additional_metrics, key_components,
\* run_metadata_fields); the caller may call again with the same objects.
GetBestTrial ==
    /\ best_pc \in {"call", "done"}
    /\ best_calls < MaxBestCalls
    /\ \E r \in {get_best_trial(exp, objective, additional_metrics, key_components,
                                   run_metadata_fields)} :
          /\ best_result' = [status |-> r.status, rows |-> r.rows]
          /\ additional_metrics' = r.additional_metrics
          /\ log' = log \o r.warnings
          /\ IF IsNone(r.trials_df)
             THEN UNCHANGED <<df_result, fetch_calls>>
             ELSE /\ df_result' = [status |-> Val(r.trials_df).status,
                                   rows |-> Val(r.trials_df).rows]
                  /\ fetch_calls' = fetch_calls + (IF Val(r.trials_df).fetched THEN 1 ELSE 0)
    /\ best_pc' = "done"
    /\ best_calls' = best_calls + 1
    /\ UNCHANGED <<exp, objective, key_components, run_metadata_fields, df_pc,
                   gr_vars, sfx_vars>>

\* ------------------------------------------------------------------ specifications
\* No GeneratorRun has been constructed.
GRInit ==
    /\ runs = <<>>
    /\ heap = <<>>
    /\ result = [op |-> "init", status |-> "ok", run |-> 0]
    /\ mutations = 0
    /\ ops = 0

\* No call of the suffix resolver is under way.
SfxIdle ==
    /\ input_str_list = <<>>
    /\ delim = <<".">>
    /\ suffix_dict = <<>>
    /\ max_chunks = 0
    /\ loop_i = 0
    /\ sfx_pc = "idle"
    /\ sfx_return = None

\* No call of exp_to_df is under way.
DfIdle ==
    /\ exp = [is_multi_type |-> FALSE, data |-> <<>>,
              arms_by_name |-> EmptyDict, trials |-> EmptyDict]
    /\ key_components = None
    /\ run_metadata_fields = None
    /\ df_pc = "idle"
    /\ df_result = [status |-> "none", rows |-> <<>>]

\* No call of get_best_trial is under way.
BestIdle ==
    /\ objective = [kind |-> "Objective", metric |-> "m1", minimize |-> TRUE]
    /\ additional_metrics = None
    /\ best_pc = "idle"
    /\ best_result = [status |-> "none", rows |-> <<>>]
    /\ best_calls = 0
    /\ fetch_calls = 0

Init ==
    /\ debug \in BOOLEAN
    /\ GRInit
    /\ SfxIdle
    /\ DfIdle
    /\ BestIdle
    /\ log = <<>>

\* The life of a GeneratorRun: constructed, indexed, cloned, its dicts written.
Next ==
    \/ ConstructMetadata
    \/ ConstructDicts
    \/ SetIndexAny
    \/ UniqueIdAny
    \/ CloneAny
    \/ MutateAny

Spec == Init /\ [][Next]_vars

\* The constructor alone, on every combination of its validated arguments.
NextCtor ==
    \/ ConstructArms
    \/ ConstructValidated

SpecCtor == Init /\ [][NextCtor]_vars

\* The strings given to the suffix resolver, and the delimiters.
SfxAlphabet == {"a", "."}
SfxStrings == SeqsUpTo(SfxAlphabet, MaxStrLen)
SfxDelims == {<<>>, <<".">>, <<".", ".">>}

\* A call _get_shortest_unique_suffix_dict(input_str_list, delim).
InitSuffix ==
    /\ debug \in BOOLEAN
    /\ GRInit
    /\ input_str_list \in SeqsUpTo(SfxStrings, MaxStrs)
    /\ delim \in SfxDelims
    /\ suffix_dict = <<>>
    /\ max_chunks = 0
    /\ loop_i = 0
    /\ sfx_pc = "start"
    /\ sfx_return = None
    /\ DfIdle
    /\ BestIdle
    /\ log = <<>>

NextSuffix ==
    \/ SfxStart
    \/ SfxRound
    \/ SfxFallback

SpecSuffix == InitSuffix /\ [][NextSuffix]_vars

NextPredictions ==
    \/ ConstructPredicted
    \/ ModelPredictionsByArmAny
    \/ CloneAny

SpecPredictions == Init /\ [][NextPredictions]_vars

\* The experiments given to exp_to_df: two trials, arms named after the
\* trial that created them, two metrics.
TrialIndexes == {1, 11}
ArmNames == {<<"1", "_", "0">>, <<"1", "1", "_", "0">>}
MetricNames == {"m1", "m2"}
MetadataFields == {"f", "g"}
MetadataValues == {0, 1}

DataRows ==
    [trial_index : TrialIndexes, arm_name : ArmNames, metric_name : MetricNames,
     mean : 1..MaxMean]

\* Fetched data: one row for a trial, an arm and a metric.
DataFrames ==
    {q \in SeqsUpTo(DataRows, MaxRows) :
        \A m, n \in 1..Len(q) :
            (/\ q[m].trial_index = q[n].trial_index
             /\ q[m].arm_name = q[n].arm_name
             /\ q[m].metric_name = q[n].metric_name) => m = n}

ArmParameters(name) == "x" :> Len(name)

ArmRegistries ==
    {[name \in names |-> ArmParameters(name)] : names \in SUBSET ArmNames \ {{}}}

TrialStatus(t) == IF t = 1 THEN "COMPLETED" ELSE "RUNNING"

PlainTrials == [t \in TrialIndexes |-> [status |-> TrialStatus(t), run_metadata |-> EmptyDict]]

RunMetadatas ==
    UNION {[present -> MetadataValues] : present \in SUBSET MetadataFields}

TwoTrialData ==
    << [trial_index |-> 1, arm_name |-> <<"1", "_", "0">>, metric_name |-> "m1", mean |-> 1],
       [trial_index |-> 11, arm_name |-> <<"1", "1", "_", "0">>, metric_name |-> "m1", mean |-> 2] >>

AllArms == [name \in ArmNames |-> ArmParameters(name)]

\* Calls that vary the fetched data, the registered arms and the key components.
DfKeyCalls ==
    /\ exp \in [is_multi_type : {FALSE}, data : DataFrames,
                arms_by_name : ArmRegistries, trials : {PlainTrials}]
    /\ key_components \in {None, Some(<<"trial_index", "arm_name">>),
                           Some(<<"arm_name", "trial_index">>)}
    /\ run_metadata_fields = None

\* Calls that vary the run_metadata of the trials and the fields requested
\* (a list, or a value that is no list), on data or on no data at all, and
\* calls on a MultiTypeExperiment.
DfMetadataCalls ==
    /\ \E multi \in BOOLEAN, md \in [TrialIndexes -> RunMetadatas],
          fetched \in {TwoTrialData, <<>>} :
          exp = [is_multi_type |-> multi, data |-> fetched,
                 arms_by_name |-> AllArms,
                 trials |-> [t \in TrialIndexes |->
                               [status |-> TrialStatus(t), run_metadata |-> md[t]]]]
    /\ key_components = None
    /\ run_metadata_fields \in
          {None, Some([is_list |-> FALSE, fields |-> <<>>])}
          \cup {Some([is_list |-> TRUE, fields |-> fs]) :
                  fs \in {<<>>, <<"f">>, <<"g">>, <<"f", "g">>}}

InitDf ==
    /\ debug = TRUE
    /\ GRInit
    /\ SfxIdle
    /\ DfKeyCalls \/ DfMetadataCalls
    /\ BestIdle
    /\ df_pc = "call"
    /\ df_result = [status |-> "none", rows |-> <<>>]
    /\ log = <<>>

NextDf == ExpToDf

SpecDf == InitDf /\ [][NextDf]_vars

\* The experiments given to get_best_trial: each trial has one arm.
BestRows ==
    {r \in DataRows : (r.trial_index = 1) <=> (r.arm_name = <<"1", "_", "0">>)}

BestData ==
    {q \in SeqsUpTo(BestRows, MaxRows) :
        \A m, n \in 1..Len(q) :
            (/\ q[m].trial_index = q[n].trial_index
             /\ q[m].metric_name = q[n].metric_name) => m = n}

Objectives ==
    [kind : {"Objective"}, metric : MetricNames, minimize : BOOLEAN]
    \cup [kind : {"MultiObjective", "ScalarizedObjective"}, metric : {"m1"},
          minimize : {TRUE}]

AdditionalMetrics ==
    {None} \cup {Some(q) : q \in {<<>>, <<"m1">>, <<"m2">>, <<"m1", "m2">>}}

InitBest ==
    /\ debug = TRUE
    /\ GRInit
    /\ SfxIdle
    /\ \/ /\ exp \in [is_multi_type : {FALSE}, data : BestData,
                      arms_by_name : {AllArms, [name \in {<<"1", "_", "0">>} |->
                                                   ArmParameters(name)]},
                      trials : {PlainTrials}]
          /\ key_components \in {None, Some(<<"arm_name", "trial_index">>)}
          /\ run_metadata_fields = None
       \/ /\ exp \in [is_multi_type : BOOLEAN, data : {TwoTrialData},
                      arms_by_name : {AllArms}, trials : {PlainTrials}]
          /\ key_components = None
          /\ run_metadata_fields \in {Some([is_list |-> FALSE, fields |-> <<>>]),
                                      Some([is_list |-> TRUE, fields |-> <<"f">>])}
    /\ objective \in Objectives
    /\ additional_metrics \in AdditionalMetrics
    /\ df_pc = "idle"
    /\ df_result = [status |-> "none", rows |-> <<>>]
    /\ best_pc = "call"
    /\ best_result = [status |-> "none", rows |-> <<>>]
    /\ best_calls = 0
    /\ fetch_calls = 0
    /\ log = <<>>

NextBest == GetBestTrial

SpecBest == InitBest /\ [][NextBest]_vars

\* ================================================================== claims
\* Helpers of the claims' statements.
RECURSIVE SumOver(_, _)
SumOver(S, w) == IF S = {} THEN 0
                 ELSE LET i == CHOOSE x \in S : TRUE IN w[i] + SumOver(S \ {i}, w)

\* The positions of an arms list where a signature occurs for the first time.
FirstOccurrences(as) ==
    {i \in 1..Len(as) : \A j \in 1..(i - 1) : as[j].signature # as[i].signature}

\* The p-th smallest element of a set of positions.
Nth(S, p) == CHOOSE i \in S : Cardinality({j \in S : j < i}) = p - 1

\* The weights a constructor call gives its arms: the list, or 1.0 each.
InputWeights(res) ==
    IF IsNone(res.weights) THEN [i \in 1..Len(res.arms) |-> 1] ELSE Val(res.weights)

Constructed == result.op = "construct" /\ result.status = "ok"

\* C1: a constructed GeneratorRun has one table entry per distinct arm
\* signature of the arms given, in the order in which the signatures first
\* occur, and the weight of an entry is the sum of the weights given to the
\* arms of that signature; arms and weights have that many elements.
C1_WeightsMergedBySignature ==
    Constructed =>
        LET as == result.arms
            ws == InputWeights(result)
            first == FirstOccurrences(as)
            run == runs[result.run]
        IN /\ Len(arms(run)) = Cardinality(first)
           /\ Len(weights(run)) = Cardinality(first)
           /\ Cardinality(arm_signatures(run)) = Cardinality(first)
           /\ \A p \in 1..Cardinality(first) :
                 /\ arms(run)[p].signature = as[Nth(first, p)].signature
                 /\ weights(run)[p] =
                        SumOver({i \in 1..Len(as) :
                                   as[i].signature = arms(run)[p].signature}, ws)

\* C1's case: three arms with explicit weights, the third repeating the
\* signature of the first.
C1_Witness ==
    /\ Constructed
    /\ ~IsNone(result.weights)
    /\ Len(result.arms) = 3
    /\ result.arms[1].signature = result.arms[3].signature
    /\ result.arms[1].signature # result.arms[2].signature
    /\ weights(runs[result.run]) = <<Val(result.weights)[1] + Val(result.weights)[3],
                                     Val(result.weights)[2]>>

\* C4: a constructor call with a weights list whose length is not that of
\* the arms list raises ValueError, whatever its other arguments, and
\* produces no object.
C4_LengthMismatchFails ==
    (/\ result.op = "construct"
     /\ ~IsNone(result.weights)
     /\ Len(Val(result.weights)) # Len(result.arms))
        => result.status = "ValueError" /\ runs = <<>>

\* C4's case: mismatched lengths in a call that also gives a model key, both
\* kwargs, candidate metadata and a generation step index.
C4_Witness ==
    /\ result.op = "construct"
    /\ ~IsNone(result.weights)
    /\ Len(Val(result.weights)) # Len(result.arms)
    /\ ~IsNone(result.model_key)
    /\ ~IsNone(result.contents["model_kwargs"])
    /\ ~IsNone(result.contents["bridge_kwargs"])
    /\ ~IsNone(result.contents["candidate_metadata_by_arm_signature"])
    /\ ~IsNone(result.generation_step_index)
    /\ result.status = "ValueError"

\* C6 (as claimed): a constructor call with a negative generation step index
\* raises ValueError and produces no object.
C6_NegativeStepIndexIsValueError ==
    (/\ result.op = "construct"
     /\ ~IsNone(result.generation_step_index)
     /\ Val(result.generation_step_index) < 0)
        => result.status = "ValueError" /\ runs = <<>>

\* C2: an assignment to an unset index sets it; an assignment of the value
\* the index has succeeds and changes nothing; an assignment of another value
\* raises ValueError and changes nothing; an index that is set never changes.
C2_IndexWriteOnce ==
    [][ /\ \A r \in 1..Len(runs) :
              ~IsNone(runs[r].index) => runs'[r].index = runs[r].index
        /\ (result'.op = "set_index" /\ ops' # ops) =>
              LET r == result'.run
                  v == result'.value
              IN IF IsNone(runs[r].index)
                 THEN result'.status = "ok" /\ runs'[r].index = Some(v)
                 ELSE IF Val(runs[r].index) = v
                 THEN result'.status = "ok" /\ runs' = runs
                 ELSE result'.status = "ValueError" /\ runs' = runs ]_vars

\* C2's case: an index that is set was assigned another value, and kept its own.
C2_Witness ==
    /\ result.op = "set_index"
    /\ result.status = "ValueError"
    /\ ~IsNone(result.before)
    /\ Val(result.before) # result.value
    /\ runs[result.run].index = result.before

\* C7: _unique_id is str(index) when the index is set, whatever the
\* generation step index; else str(generation_step_index) when that is set;
\* else reading it raises ValueError; and reading it changes nothing.
C7_UniqueIdPriority ==
    [][ (result'.op = "unique_id" /\ ops' # ops) =>
            LET run == runs[result'.run]
            IN /\ runs' = runs /\ heap' = heap
               /\ IF ~IsNone(run.index)
                  THEN /\ result'.status = "ok"
                       /\ result'.value = IntToStr(Val(run.index))
                  ELSE IF ~IsNone(run.generation_step_index)
                  THEN /\ result'.status = "ok"
                       /\ result'.value = IntToStr(Val(run.generation_step_index))
                  ELSE result'.status = "ValueError" ]_vars

\* C7's case: index 1 and generation step index 0 are both set, and the id
\* is "1".
C7_Witness ==
    /\ result.op = "unique_id"
    /\ runs[result.run].index = Some(1)
    /\ runs[result.run].generation_step_index = Some(0)
    /\ result.value = <<"1">>

\* C3 (as claimed): when a caller writes an entry of a dict field of one run,
\* no field of any other run (its clone, or the run it was cloned from) shows
\* a changed content.
C3_CloneSharesNoContainer ==
    [][ (result'.op = "mutate" /\ ops' # ops) =>
            \A r \in 1..Len(runs) : \A f \in DictFields :
                r # result'.run => field_view(r, f)' = field_view(r, f) ]_vars

ChunkSuffix(s, d, k) ==
    LET c == split(s, d)
    IN IF k >= Len(c) THEN s ELSE join(SubSeq(c, Len(c) - k + 1, Len(c)), d)

InputStrs == {input_str_list[k] : k \in 1..Len(input_str_list)}

\* No other input string has the same trailing suffix of k chunks as s.
UniqueAt(s, k) == \A t \in InputStrs \ {s} : ChunkSuffix(t, delim, k) # ChunkSuffix(s, delim, k)

\* The smallest k >= 1 at which s is unique, or 0 when there is none up to
\* the number of chunks of s.
MinUnique(s) ==
    LET ks == {k \in 1..Len(split(s, delim)) : UniqueAt(s, k)}
    IN IF ks = {} THEN 0 ELSE CHOOSE k \in ks : \A m \in ks : k <= m

\* The call's precondition: some strings, pairwise distinct, a non-empty delimiter.
SfxWellFormed ==
    input_str_list # <<>> /\ IsInjective(input_str_list) /\ delim # <<>>

\* C8: on pairwise distinct strings and a non-empty delimiter the resolver
\* returns a dict whose keys are the inputs, mapping each to its trailing
\* suffix of the smallest number of chunks that no other input shares, or to
\* itself when no such suffix exists; the values are pairwise distinct.
C8_ShortestUniqueSuffix ==
    (SfxWellFormed /\ sfx_pc \in {"done", "raised"}) =>
        /\ sfx_pc = "done"
        /\ ~IsNone(sfx_return)
        /\ LET m == Val(sfx_return)
           IN /\ DOMAIN m = InputStrs
              /\ \A s \in InputStrs :
                    m[s] = IF MinUnique(s) = 0 THEN s
                           ELSE ChunkSuffix(s, delim, MinUnique(s))
              /\ \A s, t \in InputStrs : m[s] = m[t] => s = t

\* C8's case: three strings, one abbreviated to its last chunk while two
\* others, which share their last chunk, keep two chunks.
C8_Witness ==
    /\ SfxWellFormed /\ sfx_pc = "done"
    /\ Len(input_str_list) = 3
    /\ \E s, t, u \in InputStrs :
          /\ s # t /\ s # u /\ t # u
          /\ Len(split(s, delim)) = 2 /\ Val(sfx_return)[s] # s
          /\ Len(split(t, delim)) = 2 /\ Val(sfx_return)[t] = t
          /\ Len(split(u, delim)) = 2 /\ Val(sfx_return)[u] = u

\* The rows of the fetched data of the arms the experiment has registered.
RegisteredData == SelectSeq(exp.data, LAMBDA r : r.arm_name \in DOMAIN exp.arms_by_name)

DfReturned == df_pc = "done" /\ ~exp.is_multi_type /\ exp.data # <<>>

\* C9 (as claimed): on fetched data that is not empty exp_to_df returns one
\* row for each (trial_index, arm_name) of the data (of a registered arm), and
\* that row holds for each metric the mean of the data row of that trial, arm
\* and metric, and of no other.
C9_OneRowPerKeyCombination ==
    DfReturned =>
        /\ df_result.status = "ok"
        /\ LET rows == df_result.rows
               combos == {<<r.trial_index, r.arm_name>> : r \in Range(RegisteredData)}
           IN /\ Len(rows) = Cardinality(combos)
              /\ {<<rows[k].trial_index, rows[k].arm_name>> : k \in 1..Len(rows)} = combos
              /\ \A k \in 1..Len(rows) : \A name \in DOMAIN rows[k].metrics :
                    \A v \in 1..MaxMean :
                       rows[k].metrics[name] = Some(v) <=>
                          \E r \in Range(exp.data) :
                             /\ r.trial_index = rows[k].trial_index
                             /\ r.arm_name = rows[k].arm_name
                             /\ r.metric_name = name
                             /\ r.mean = v

\* The trials whose run_metadata has the field.
TrialsWith(field) == {t \in DOMAIN exp.trials : field \in DOMAIN exp.trials[t].run_metadata}

Requested ==
    IF IsNone(run_metadata_fields) THEN {} ELSE Range(Val(run_metadata_fields).fields)

\* C10 (as claimed): for a requested field, the column is left out, with a
\* warning, exactly when no trial's run_metadata has the field; else the
\* column is there, each row holding its trial's value or None, with a warning
\* exactly when some trial lacks the field.
C10_MetadataColumnByPresence ==
    (DfReturned /\ df_result.status = "ok") =>
        \A field \in Requested :
            /\ TrialsWith(field) = {} =>
                  /\ \A k \in 1..Len(df_result.rows) :
                        field \notin DOMAIN df_result.rows[k].fields
                  /\ [warning |-> "missing_for_all", field |-> field] \in Range(log)
            /\ TrialsWith(field) # {} =>
                  /\ \A k \in 1..Len(df_result.rows) :
                        LET row == df_result.rows[k]
                        IN /\ field \in DOMAIN row.fields
                           /\ row.fields[field] =
                                 IF row.trial_index \in TrialsWith(field)
                                 THEN Some(exp.trials[row.trial_index].run_metadata[field])
                                 ELSE None
                  /\ [warning |-> "missing_for_all", field |-> field] \notin Range(log)
                  /\ [warning |-> "missing_for_some", field |-> field] \in Range(log)
                        <=> TrialsWith(field) # DOMAIN exp.trials

\* C11 (as claimed): on an experiment that is no MultiTypeExperiment, whatever
\* its fetched data, a run_metadata_fields that is given and is no list makes
\* exp_to_df fail with ValueError.
C11_NonListFieldsAlwaysFail ==
    (/\ df_pc = "done"
     /\ ~exp.is_multi_type
     /\ ~IsNone(run_metadata_fields)
     /\ ~Val(run_metadata_fields).is_list) => df_result.status = "ValueError"

\* get_best_trial has returned on a plain objective and the table exp_to_df
\* gave it for the same experiment, key components and fields has a row.
BestOfSomeRows ==
    /\ best_pc = "done"
    /\ objective.kind = "Objective"
    /\ df_result.status = "ok"
    /\ Len(df_result.rows) >= 1

Better(v, w) == IF objective.minimize THEN v <= w ELSE v >= w

\* C12 (as claimed): on a plain objective, when the table of exp_to_df has at
\* least one row, get_best_trial returns exactly one row; it is a row of that
\* table, its value of the objective's metric is the least of the table when
\* minimizing and the greatest when maximizing, and no earlier row of the
\* table (sorted by the key components) has that value.
C12_BestTrialIsFirstOptimum ==
    BestOfSomeRows =>
        /\ best_result.status = "ok"
        /\ Len(best_result.rows) = 1
        /\ LET best == best_result.rows[1]
               table == df_result.rows
               name == objective.metric
           IN /\ name \in DOMAIN best.metrics
              /\ ~IsNone(best.metrics[name])
              /\ \A k \in 1..Len(table) :
                    ~IsNone(table[k].metrics[name]) =>
                        Better(Val(best.metrics[name]), Val(table[k].metrics[name]))
              /\ \E k \in 1..Len(table) :
                    /\ table[k] = best
                    /\ \A j \in 1..(k - 1) : table[j].metrics[name] # best.metrics[name]

\* C13: get_best_trial returns None exactly when the objective is a
\* MultiObjective or a ScalarizedObjective, or when exp_to_df returned a table
\* of no rows; on such an objective a warning is logged and exp.fetch_data is
\* not called.
C13_NoneExactlyWhenUnsupportedOrEmpty ==
    best_pc = "done" =>
        /\ best_result.status = "None" <=>
              \/ objective.kind \in {"MultiObjective", "ScalarizedObjective"}
              \/ df_result.status = "ok" /\ df_result.rows = <<>>
        /\ objective.kind \in {"MultiObjective", "ScalarizedObjective"} =>
              /\ fetch_calls = 0
              /\ df_result.status = "none"
              /\ log # <<>>
              /\ \A k \in 1..Len(log) :
                    log[k] = [warning |-> "no_best_trial", kind |-> objective.kind]

C13_Witness ==
    /\ best_pc = "done"
    /\ objective.kind = "ScalarizedObjective"
    /\ best_result.status = "None"
    /\ fetch_calls = 0
    /\ Len(log) = best_calls

\* C16 (as claimed): a call of get_best_trial leaves the caller's list
\* additional_metrics with the elements it had.
C16_AdditionalMetricsUnchanged ==
    [][additional_metrics' = additional_metrics]_vars

\* Every group of the dict holds one string.
AllSingletons(dd) == \A k \in 1..Len(dd) : Len(dd[k].strs) = 1

\* Every input string is in one group of the dict, once.
GroupsPartitionInputs(dd) ==
    \A s \in InputStrs :
        Cardinality({<<k, j>> \in (1..Len(dd)) \X (1..MaxStrs + 1) :
                        j <= Len(dd[k].strs) /\ dd[k].strs[j] = s}) = 1

\* The call is past its checks.
SfxRunning == sfx_pc \in {"loop", "fallback", "done"}

\* C14, the states: on pairwise distinct strings and a non-empty delimiter
\* the fallback and its warning are never reached; every input string stays
\* in one group; the loop variable never passes max_chunks + 1, i.e. at most
\* max_chunks rounds are run; the round of i = max_chunks + 1 finds every
\* group a singleton; and the call returns from a dict of singletons, each
\* string mapped to the suffix of its group.
C14_States ==
    (SfxWellFormed /\ SfxRunning) =>
        /\ sfx_pc # "fallback"
        /\ log = <<>>
        /\ GroupsPartitionInputs(suffix_dict)
        /\ max_chunks > 1 => loop_i \in 2..(max_chunks + 1)
        /\ (sfx_pc = "loop" /\ loop_i = max_chunks + 1) => AllSingletons(suffix_dict)
        /\ sfx_pc = "done" =>
              /\ AllSingletons(suffix_dict)
              /\ \A k \in 1..Len(suffix_dict) :
                    Val(sfx_return)[suffix_dict[k].strs[1]] =
                       IF max_chunks = 1 THEN suffix_dict[k].strs[1]
                       ELSE suffix_dict[k].suffix

\* C14, the steps: a round leaves every singleton group as it is, under its
\* suffix and with its one string.
C14_Steps ==
    (SfxWellFormed /\ sfx_pc = "loop") =>
        \A k \in 1..Len(suffix_dict) :
            Len(suffix_dict[k].strs) = 1 =>
                \E j \in 1..Len(suffix_dict') : suffix_dict'[j] = suffix_dict[k]

\* C14: for pairwise distinct strings and a non-empty delimiter the
\* regrouping loop reaches a dict of singleton groups within max_chunks rounds
\* and returns from it, never reaches the fallback, and never overwrites or
\* merges a singleton group.
C14_LoopEndsInSingletons == [](C14_States) /\ [][C14_Steps]_vars

\* C14's case: a call that needed every round, i up to max_chunks + 1, and
\* carried a singleton group through a round that split another group.
C14_Witness ==
    /\ SfxWellFormed /\ sfx_pc = "done"
    /\ max_chunks >= 2 /\ loop_i = max_chunks + 1
    /\ Len(input_str_list) = 3
    /\ \E k \in 1..Len(suffix_dict) :
          Len(split(suffix_dict[k].suffix, delim)) = 1

\* The positions of the arms of a signature in the list given to the constructor.
PositionsOf(given, sig) == {i \in 1..Len(given) : given[i].signature = sig}

\* C15 (as claimed): read after the constructor, model_predictions_by_arm is
\* None when no raw predictions were given; else it has one entry for each
\* signature of the arms given, holding for every metric and pair of metrics
\* the mean and the covariance the raw predictions have at a position of an
\* arm of that signature in the list given to the constructor.
C15_PredictionsOfEachArm ==
    [][(/\ result.op = "construct" /\ result.status = "ok"
        /\ result'.op = "model_predictions_by_arm") =>
          LET given == result.arms
              raw == result.contents["model_predictions"]
              by_arm == result'.value
          IN IF IsNone(raw) THEN IsNone(by_arm)
             ELSE /\ ~IsNone(by_arm)
                  /\ DOMAIN Val(by_arm) = {given[i].signature : i \in 1..Len(given)}
                  /\ \A sig \in DOMAIN Val(by_arm) :
                        \E i \in PositionsOf(given, sig) :
                           /\ \A metric \in DOMAIN Val(raw)[1] :
                                 Val(by_arm)[sig][1][metric] = Val(raw)[1][metric][i]
                           /\ \A metric \in DOMAIN Val(raw)[2] :
                                 \A other \in DOMAIN Val(raw)[2][metric] :
                                    Val(by_arm)[sig][2][metric][other] =
                                       Val(raw)[2][metric][other][i]]_vars

====
